---- MODULE Spec2Model ----
(***************************************************************************)
(* Model of src/edit_distance.c: the Python extension function             *)
(* levenshtein(self, args), which parses two C strings and computes their  *)
(* Levenshtein distance with two heap-allocated rolling rows.              *)
(*                                                                         *)
(* A behaviour is a caller running a script of calls one after the other.  *)
(* Each call is executed statement by statement; the heap (calloc/free) is *)
(* modelled explicitly.  Strings are TLA+ sequences over Chars; buffers    *)
(* are functions over the C indices 0..n-1.                                *)
(***************************************************************************)
EXTENDS Integers, Sequences, FiniteSets, TLC

\* ---- bounds of the model ----
MaxLen == 3       \* longest string in a two-call script
MaxLenT == 2      \* longest string in a three-call script
NAddr == 3        \* heap addresses the allocator can hand out

\* Non-NUL character values a parsed "s" argument can hold.
Chars == {1, 2}

Addrs == 1..NAddr
NULL == 0

Strs(n) == UNION {[1..k -> Chars] : k \in 0..n}

\* ---- C helpers ----

\* src line 5: #define MIN(a,b) (((a)<(b))?(a):(b))
MIN(a, b) == IF a < b THEN a ELSE b

\* strlen(s): the strings hold no NUL, so it is the length
strlen(s) == Len(s)

\* s[k] with the C (0-based) index
CharAt(s, k) == s[k + 1]

CallocGarbage(n) == [k \in 0..(n - 1) |-> -1]

\* calloc(n, sizeof(int)): n cells, all zero
Calloc(n) == [k \in 0..(n - 1) |-> 0]

\* the allocator: first address that is not live, NULL when there is none
FreeAddrs(h) == {p \in Addrs : ~h[p].live}
AllocAddr(h) ==
    IF FreeAddrs(h) = {} THEN NULL
    ELSE CHOOSE p \in FreeAddrs(h) : \A q \in FreeAddrs(h) : p <= q

\* a pointer that may be dereferenced or freed
Valid(h, p) == p \in Addrs /\ h[p].live

CellNoInsert(ch1, ch2, xj, yj1, xj1) ==
    IF ch1 = ch2 THEN xj1 ELSE MIN(xj + 1, xj1 + 1)

CellSubstFree(ch1, ch2, xj, yj1, xj1) ==
    IF ch1 = ch2 THEN xj1 ELSE MIN(xj + 1, MIN(yj1 + 1, xj1))

CellDeleteTwo(ch1, ch2, xj, yj1, xj1) ==
    IF ch1 = ch2 THEN xj1 ELSE MIN(xj + 2, MIN(yj1 + 1, xj1 + 2))

CellInverted(ch1, ch2, xj, yj1, xj1) ==
    IF ch1 # ch2 THEN xj1 ELSE MIN(xj + 1, MIN(yj1 + 1, xj1 + 1))

CellSubstTwo(ch1, ch2, xj, yj1, xj1) ==
    IF ch1 = ch2 THEN xj1 ELSE MIN(xj + 1, MIN(yj1 + 1, xj1 + 2))

\* src lines 31-34: the value stored in y[j];
\* xj = x[j], yj1 = y[j - 1], xj1 = x[j - 1], ch1 = c1, ch2 = s2[j - 1]
Cell(ch1, ch2, xj, yj1, xj1) ==
    IF ch1 = ch2 THEN xj1 ELSE MIN(xj + 1, MIN(yj1 + 1, xj1 + 1))

\* ---- state ----
VARIABLES
    script,     \* the calls the caller still has to make
    results,    \* one record per call that has returned
    pc,         \* position inside levenshtein, "idle" between calls
    s1, s2,     \* the parsed arguments
    n1, n2,     \* strlen + 1
    i, j,       \* loop counters
    c1,         \* s1[i - 1] of the running outer iteration
    x, y, z,    \* the three int* of the function
    ret,        \* the value handed to Py_BuildValue
    heap,       \* address -> [live, cells]
    allocs,     \* sizes (in cells) of the callocs of the running call
    frees,      \* number of frees of the running call
    outerIters, \* executions of the outer loop body in the running call
    innerIters  \* executions of the inner loop body in the running call

vars == <<script, results, pc, s1, s2, n1, n2, i, j, c1, x, y, z, ret,
          heap, allocs, frees, outerIters, innerIters>>

locals == <<s1, s2, n1, n2, i, j, c1, x, y, z, ret>>
ghost == <<allocs, frees, outerIters, innerIters>>

\* args that PyArg_ParseTuple accepts for "ss", and args it rejects
Args(a, b) == [ok |-> TRUE, a |-> a, b |-> b]
BadArgs == [ok |-> FALSE, a |-> <<>>, b |-> <<>>]

EmptyHeap == [p \in Addrs |-> [live |-> FALSE, cells |-> <<>>]]

InitCall ==
    /\ results = <<>>
    /\ pc = "idle"
    /\ s1 = <<>> /\ s2 = <<>>
    /\ n1 = 0 /\ n2 = 0
    /\ i = 0 /\ j = 0
    /\ c1 = 0
    /\ x = NULL /\ y = NULL /\ z = NULL
    /\ ret = 0
    /\ heap = EmptyHeap
    /\ allocs = <<>>
    /\ frees = 0
    /\ outerIters = 0
    /\ innerIters = 0

\* a caller that calls (a, b) and then (b, a), possibly after a call with
\* arguments that do not parse
Init ==
    /\ \E a \in Strs(MaxLen), b \in Strs(MaxLen), first \in {<<>>, <<BadArgs>>} :
          script = first \o <<Args(a, b), Args(b, a)>>
    /\ InitCall

\* a caller that calls (a, b), (b, c), (a, c) and then a call with arguments
\* that do not parse
InitTri ==
    /\ \E a \in Strs(MaxLenT), b \in Strs(MaxLenT), c \in Strs(MaxLenT) :
          script = <<Args(a, b), Args(b, c), Args(a, c), BadArgs>>
    /\ InitCall

\* ---- levenshtein, statement by statement ----

\* lines 16-18: PyArg_ParseTuple fails, return NULL
ParseFail ==
    /\ pc = "idle"
    /\ script # <<>>
    /\ ~Head(script).ok
    /\ script' = Tail(script)
    /\ results' = Append(results,
          [ok |-> FALSE, s1 |-> <<>>, s2 |-> <<>>, ret |-> 0,
           allocs |-> allocs, frees |-> frees,
           outer |-> outerIters, inner |-> innerIters])
    /\ UNCHANGED <<pc, locals, heap, ghost>>

\* lines 16, 19-21: the arguments parse; n1, n2
ParseOk ==
    /\ pc = "idle"
    /\ script # <<>>
    /\ Head(script).ok
    /\ script' = Tail(script)
    /\ s1' = Head(script).a
    /\ s2' = Head(script).b
    /\ n1' = strlen(Head(script).a) + 1
    /\ n2' = strlen(Head(script).b) + 1
    /\ pc' = "alloc_x"
    /\ UNCHANGED <<results, i, j, c1, x, y, z, ret, heap, ghost>>

\* line 23, first statement: int *x = calloc(n2, sizeof(int)); i = 0
AllocX ==
    /\ pc = "alloc_x"
    /\ LET p == AllocAddr(heap) IN
          /\ x' = p
          /\ heap' = IF p = NULL THEN heap
                     ELSE [heap EXCEPT ![p] = [live |-> TRUE, cells |-> Calloc(n2)]]
          /\ allocs' = IF p = NULL THEN allocs ELSE Append(allocs, n2)
    /\ i' = 0
    /\ pc' = "init_x"
    /\ UNCHANGED <<script, results, s1, s2, n1, n2, j, c1, y, z, ret,
                   frees, outerIters, innerIters>>

InitXStepZero ==
    /\ pc = "init_x"
    /\ i < n2
    /\ IF Valid(heap, x)
         THEN /\ heap' = [heap EXCEPT ![x].cells[i] = 0]
              /\ i' = i + 1
              /\ pc' = pc
         ELSE /\ pc' = "fault"
              /\ UNCHANGED <<heap, i>>
    /\ UNCHANGED <<script, results, s1, s2, n1, n2, j, c1, x, y, z, ret, ghost>>

\* line 23, the loop: for (i=0; i<n2; ++i) x[i]=i;
InitXStep ==
    /\ pc = "init_x"
    /\ i < n2
    /\ IF Valid(heap, x)
         THEN /\ heap' = [heap EXCEPT ![x].cells[i] = i]
              /\ i' = i + 1
              /\ pc' = pc
         ELSE /\ pc' = "fault"
              /\ UNCHANGED <<heap, i>>
    /\ UNCHANGED <<script, results, s1, s2, n1, n2, j, c1, x, y, z, ret, ghost>>

InitXExit ==
    /\ pc = "init_x"
    /\ ~(i < n2)
    /\ pc' = "alloc_y"
    /\ UNCHANGED <<script, results, locals, heap, ghost>>

\* lines 24-25, and i = 1 of line 27
AllocY ==
    /\ pc = "alloc_y"
    /\ LET p == AllocAddr(heap) IN
          /\ y' = p
          /\ heap' = IF p = NULL THEN heap
                     ELSE [heap EXCEPT ![p] = [live |-> TRUE, cells |-> Calloc(n2)]]
          /\ allocs' = IF p = NULL THEN allocs ELSE Append(allocs, n2)
    /\ z' = NULL
    /\ i' = 1
    /\ pc' = "outer"
    /\ UNCHANGED <<script, results, s1, s2, n1, n2, j, c1, x, ret,
                   frees, outerIters, innerIters>>

\* lines 27-28: i < n1 holds; const char c1 = s1[i - 1]
OuterEnter ==
    /\ pc = "outer"
    /\ i < n1
    /\ c1' = CharAt(s1, i - 1)
    /\ outerIters' = outerIters + 1
    /\ pc' = "set_y0"
    /\ UNCHANGED <<script, results, s1, s2, n1, n2, i, j, x, y, z, ret,
                   heap, allocs, frees, innerIters>>

\* line 27: i < n1 fails, the loop is left
OuterExit ==
    /\ pc = "outer"
    /\ ~(i < n1)
    /\ pc' = "build"
    /\ UNCHANGED <<script, results, locals, heap, ghost>>

SetY0Stale ==
    /\ pc = "set_y0"
    /\ IF Valid(heap, y)
         THEN /\ heap' = [heap EXCEPT ![y].cells[0] = i - 1]
              /\ j' = 1
              /\ pc' = "inner"
         ELSE /\ pc' = "fault"
              /\ UNCHANGED <<heap, j>>
    /\ UNCHANGED <<script, results, s1, s2, n1, n2, i, c1, x, y, z, ret, ghost>>

\* line 29: y[0] = i; and j = 1 of line 30
SetY0 ==
    /\ pc = "set_y0"
    /\ IF Valid(heap, y)
         THEN /\ heap' = [heap EXCEPT ![y].cells[0] = i]
              /\ j' = 1
              /\ pc' = "inner"
         ELSE /\ pc' = "fault"
              /\ UNCHANGED <<heap, j>>
    /\ UNCHANGED <<script, results, s1, s2, n1, n2, i, c1, x, y, z, ret, ghost>>

\* lines 30-35: one execution of the inner loop body, and ++j
InnerStep ==
    /\ pc = "inner"
    /\ j < n2
    /\ IF Valid(heap, x) /\ Valid(heap, y)
         THEN /\ heap' = [heap EXCEPT ![y].cells[j] =
                            Cell(c1, CharAt(s2, j - 1), heap[x].cells[j],
                                 heap[y].cells[j - 1], heap[x].cells[j - 1])]
              /\ j' = j + 1
              /\ innerIters' = innerIters + 1
              /\ pc' = pc
         ELSE /\ pc' = "fault"
              /\ UNCHANGED <<heap, j, innerIters>>
    /\ UNCHANGED <<script, results, s1, s2, n1, n2, i, c1, x, y, z, ret,
                   allocs, frees, outerIters>>

\* line 30: j < n2 fails
InnerExit ==
    /\ pc = "inner"
    /\ ~(j < n2)
    /\ pc' = "swap"
    /\ UNCHANGED <<script, results, locals, heap, ghost>>

SwapNone ==
    /\ pc = "swap"
    /\ z' = x
    /\ i' = i + 1
    /\ pc' = "outer"
    /\ UNCHANGED <<script, results, s1, s2, n1, n2, j, c1, x, y, ret, heap, ghost>>

\* line 36: z = x; x = y; y = z; and ++i of line 27
Swap ==
    /\ pc = "swap"
    /\ z' = x
    /\ x' = y
    /\ y' = x
    /\ i' = i + 1
    /\ pc' = "outer"
    /\ UNCHANGED <<script, results, s1, s2, n1, n2, j, c1, ret, heap, ghost>>

\* line 38: Py_BuildValue("i", x[n2 - 1])
BuildRet ==
    /\ pc = "build"
    /\ IF Valid(heap, x)
         THEN /\ ret' = heap[x].cells[n2 - 1]
              /\ pc' = "free_x"
         ELSE /\ pc' = "fault"
              /\ UNCHANGED ret
    /\ UNCHANGED <<script, results, s1, s2, n1, n2, i, j, c1, x, y, z, heap, ghost>>

\* free(p): the buffer is gone; freeing what is not a live buffer is undefined
Free(p, next) ==
    IF Valid(heap, p)
      THEN /\ heap' = [heap EXCEPT ![p] = [live |-> FALSE, cells |-> <<>>]]
           /\ frees' = frees + 1
           /\ pc' = next
      ELSE /\ pc' = "fault"
           /\ UNCHANGED <<heap, frees>>

\* line 39: free(x)
FreeX ==
    /\ pc = "free_x"
    /\ Free(x, "free_y")
    /\ UNCHANGED <<script, results, locals, allocs, outerIters, innerIters>>

FreeYAgainX ==
    /\ pc = "free_y"
    /\ Free(x, "return")
    /\ UNCHANGED <<script, results, locals, allocs, outerIters, innerIters>>

\* line 40: free(y)
FreeY ==
    /\ pc = "free_y"
    /\ Free(y, "return")
    /\ UNCHANGED <<script, results, locals, allocs, outerIters, innerIters>>

\* line 41: return ret; the frame is gone
Return ==
    /\ pc = "return"
    /\ results' = Append(results,
          [ok |-> TRUE, s1 |-> s1, s2 |-> s2, ret |-> ret,
           allocs |-> allocs, frees |-> frees,
           outer |-> outerIters, inner |-> innerIters])
    /\ pc' = "idle"
    /\ s1' = <<>> /\ s2' = <<>>
    /\ n1' = 0 /\ n2' = 0
    /\ i' = 0 /\ j' = 0
    /\ c1' = 0
    /\ x' = NULL /\ y' = NULL /\ z' = NULL
    /\ ret' = 0
    /\ allocs' = <<>>
    /\ frees' = 0
    /\ outerIters' = 0
    /\ innerIters' = 0
    /\ UNCHANGED <<script, heap>>

Next ==
    \/ ParseFail
    \/ ParseOk
    \/ AllocX
    \/ InitXStep
    \/ InitXExit
    \/ AllocY
    \/ OuterEnter
    \/ OuterExit
    \/ SetY0
    \/ InnerStep
    \/ InnerExit
    \/ Swap
    \/ BuildRet
    \/ FreeX
    \/ FreeY
    \/ Return

Spec == Init /\ [][Next]_vars

SpecTri == InitTri /\ [][Next]_vars

\* ---- the reference: the full (len(a)+1) x (len(b)+1) table ----

Max(a, b) == IF a > b THEN a ELSE b
Abs(a) == IF a < 0 THEN -a ELSE a

\* entry (m, n) of the full table: the edit distance between the first m
\* characters of a and the first n characters of b
RECURSIVE D(_, _, _, _)
D(a, b, m, n) ==
    IF m = 0 THEN n
    ELSE IF n = 0 THEN m
    ELSE LET del == D(a, b, m - 1, n) + 1
             ins == D(a, b, m, n - 1) + 1
             sub == D(a, b, m - 1, n - 1) + (IF a[m] = b[n] THEN 0 ELSE 1)
         IN  IF del <= ins /\ del <= sub THEN del
             ELSE IF ins <= sub THEN ins ELSE sub

Lev(a, b) == D(a, b, Len(a), Len(b))

OkResults == {k \in DOMAIN results : results[k].ok}

\* a[k] # b[k] at every index both have
NoMatchAtSamePosition(a, b) ==
    \A k \in 1..Len(a) : k <= Len(b) => a[k] # b[k]

\* a and b have no character in common
NoCommonChar(a, b) ==
    \A k \in 1..Len(a), l \in 1..Len(b) : a[k] # b[l]

\* ---- claims ----

\* C1: the value a call returns is the standard Levenshtein distance of its
\* two arguments, as given by the full-table recurrence.
C1_ReturnsLevenshtein ==
    pc = "return" => ret = Lev(s1, s2)

C1_Witness ==
    /\ pc = "return"
    /\ Len(s1) >= 2 /\ Len(s2) >= 2 /\ Len(s1) # Len(s2)
    /\ ret = Lev(s1, s2)
    /\ ret > Abs(Len(s1) - Len(s2))
    /\ ret < Max(Len(s1), Len(s2))

\* C2: the returned value is non-negative, and it is 0 exactly when the two
\* arguments are the same sequence.
C2_ZeroIffIdentical ==
    pc = "return" => (ret >= 0 /\ (ret = 0 <=> s1 = s2))

C2_Witness ==
    /\ pc = "return"
    /\ s1 = s2 /\ Len(s1) >= 2
    /\ \E k \in 1..Len(s1) : s1[k] # s1[1]
    /\ ret = 0

\* C3: a call on (a, b) and a call on (b, a) return the same value.
C3_Symmetric ==
    \A k \in OkResults, l \in OkResults :
        (results[k].s1 = results[l].s2 /\ results[k].s2 = results[l].s1)
            => results[k].ret = results[l].ret

C3_Witness ==
    \E k \in OkResults, l \in OkResults :
        /\ k # l
        /\ results[k].s1 = results[l].s2 /\ results[k].s2 = results[l].s1
        /\ Len(results[k].s1) >= 2
        /\ Len(results[k].s1) > Len(results[k].s2)
        /\ Len(results[k].s2) >= 1
        /\ results[k].ret = results[l].ret
        /\ results[k].ret > 0

\* C4: with an empty first argument the call returns the length of the second
\* after zero executions of the outer loop body; with an empty second argument
\* it returns the length of the first after zero executions of the inner loop
\* body.
C4_EmptyArgument ==
    \A k \in OkResults :
        /\ results[k].s1 = <<>> =>
              (results[k].ret = Len(results[k].s2) /\ results[k].outer = 0)
        /\ results[k].s2 = <<>> =>
              (results[k].ret = Len(results[k].s1) /\ results[k].inner = 0
               /\ results[k].outer = Len(results[k].s1))

C4_Witness ==
    \E k \in OkResults, l \in OkResults :
        /\ results[k].s1 = <<>> /\ Len(results[k].s2) >= 2
        /\ results[k].ret = Len(results[k].s2) /\ results[k].outer = 0
        /\ results[l].s2 = <<>> /\ Len(results[l].s1) >= 2
        /\ results[l].ret = Len(results[l].s1) /\ results[l].inner = 0

\* C5: the values returned by calls on (a, b), (b, c) and (a, c) satisfy
\* d(a, c) <= d(a, b) + d(b, c).
C5_Triangle ==
    \A k \in OkResults, l \in OkResults, m \in OkResults :
        (/\ results[k].s2 = results[l].s1
         /\ results[m].s1 = results[k].s1
         /\ results[m].s2 = results[l].s2)
            => results[m].ret <= results[k].ret + results[l].ret

C5_Witness ==
    \E k \in OkResults, l \in OkResults, m \in OkResults :
        /\ k # l /\ l # m /\ k # m
        /\ results[k].s2 = results[l].s1
        /\ results[m].s1 = results[k].s1
        /\ results[m].s2 = results[l].s2
        /\ results[k].s1 # results[k].s2
        /\ results[l].s1 # results[l].s2
        /\ results[m].s1 # results[m].s2
        /\ results[k].ret > 0 /\ results[l].ret > 0
        /\ results[m].ret < results[k].ret + results[l].ret

\* C6 as stated: when a[k] # b[k] at every index both sequences have, the
\* call returns max(len(a), len(b)).
C6_Original ==
    (pc = "return" /\ NoMatchAtSamePosition(s1, s2))
        => ret = Max(Len(s1), Len(s2))

\* C6 amended: when a and b have no character in common, the call returns
\* max(len(a), len(b)).
C6_NoCommonChar ==
    (pc = "return" /\ NoCommonChar(s1, s2))
        => ret = Max(Len(s1), Len(s2))

C6_Witness ==
    /\ pc = "return"
    /\ NoCommonChar(s1, s2)
    /\ Len(s1) >= 2 /\ Len(s2) >= 1 /\ Len(s1) # Len(s2)
    /\ ret = Max(Len(s1), Len(s2))

\* C7: whenever the outer loop test is reached with counter i (before the
\* first iteration and after every swap), x holds row i - 1 of the full
\* table: x[jj] is the distance between the first i - 1 characters of s1 and
\* the first jj characters of s2; and the value built after the loop is the
\* table entry for the full sequences.
C7_RowRefinement ==
    /\ pc = "outer" =>
          /\ Valid(heap, x)
          /\ \A jj \in 0..(n2 - 1) : heap[x].cells[jj] = D(s1, s2, i - 1, jj)
    /\ (pc = "outer" /\ i = 1) =>
          heap[x].cells = [jj \in 0..(n2 - 1) |-> jj]
    /\ pc = "free_x" => ret = D(s1, s2, n1 - 1, n2 - 1)

C7_Witness ==
    /\ pc = "outer"
    /\ i >= 3 /\ n2 >= 3
    /\ Valid(heap, x) /\ Valid(heap, y)
    /\ \A jj \in 0..(n2 - 1) : heap[x].cells[jj] = D(s1, s2, i - 1, jj)
    /\ \A jj \in 0..(n2 - 1) : heap[y].cells[jj] = D(s1, s2, i - 2, jj)
    /\ heap[x].cells # heap[y].cells

\* C8: every cell of every allocated row holds a value between 0 and
\* max(len(s1), len(s2)), in every state of a call.
C8_CellsInRange ==
    \A p \in {x, y} :
        Valid(heap, p) =>
            \A k \in DOMAIN heap[p].cells :
                /\ heap[p].cells[k] >= 0
                /\ heap[p].cells[k] <= Max(Len(s1), Len(s2))

C8_Witness ==
    /\ pc = "inner"
    /\ i >= 3 /\ j = 1 /\ n2 >= 3
    /\ Valid(heap, y)
    /\ heap[y].cells[n2 - 1] = D(s1, s2, i - 2, n2 - 1)
    /\ heap[y].cells[n2 - 1] > 0

\* C9: cell 0 of a row is the index of the s1 prefix the row belongs to:
\* x[0] = i - 1 from the loop test of iteration i on, y[0] = i once line 29
\* has run, and x[0] = len(s1) after the loop.  Until line 29 overwrites it,
\* the reused buffer y is still row i - 2 and holds y[0] = i - 2.
C9_CellZeroIsIndex ==
    /\ pc \in {"outer", "set_y0", "inner", "swap"} =>
          (Valid(heap, x) /\ heap[x].cells[0] = i - 1)
    /\ pc \in {"inner", "swap"} =>
          (Valid(heap, y) /\ heap[y].cells[0] = i)
    /\ (pc \in {"outer", "set_y0", "build", "free_x"} /\ i >= 2) =>
          (Valid(heap, y) /\ heap[y].cells[0] = i - 2)
    /\ pc \in {"build", "free_x"} =>
          (Valid(heap, x) /\ heap[x].cells[0] = Len(s1))

C9_Witness ==
    /\ pc = "inner"
    /\ i >= 2 /\ j >= 2
    /\ heap[y].cells[0] = i
    /\ heap[x].cells[0] = i - 1

\* C10: a call whose arguments parse allocates exactly two buffers of
\* len(s2) + 1 cells and frees exactly two; a call whose arguments do not
\* parse allocates none; x and y are two distinct live buffers throughout the
\* loop; no access or free ever hits a buffer that is not live; and between
\* calls no buffer is live.
C10_BuffersReleased ==
    /\ pc # "fault"
    /\ \A k \in DOMAIN results :
          IF results[k].ok
            THEN /\ results[k].allocs =
                       <<Len(results[k].s2) + 1, Len(results[k].s2) + 1>>
                 /\ results[k].frees = 2
            ELSE /\ results[k].allocs = <<>>
                 /\ results[k].frees = 0
    /\ pc \in {"outer", "set_y0", "inner", "swap", "build", "free_x"} =>
          (x # y /\ Valid(heap, x) /\ Valid(heap, y))
    /\ pc = "free_y" => (x # y /\ ~Valid(heap, x) /\ Valid(heap, y))
    /\ pc \in {"idle", "return"} => \A p \in Addrs : ~heap[p].live

C10_Witness ==
    /\ pc = "idle"
    /\ \E k \in DOMAIN results : ~results[k].ok
    /\ \E k \in OkResults : results[k].outer = 2 /\ results[k].frees = 2
    /\ \E k \in OkResults : results[k].outer = 3 /\ results[k].frees = 2
    /\ \A p \in Addrs : ~heap[p].live

====
